---- MODULE Spec2Model ----
(***************************************************************************)
(* A model of mt5_jsonapi.JsonAPIClient (src/src/mt5_jsonapi/client.py):   *)
(* one ZeroMQ context, a REQ socket for commands and three PULL sockets    *)
(* for command results, live quotes and trade events.  The remote bridge   *)
(* is the environment: it acknowledges (or not) each request and pushes    *)
(* frames to the PULL sockets.                                             *)
(*                                                                         *)
(* Text frames are sequences of lexical tokens; json.loads and json.dumps  *)
(* are a parser and a printer over them.  Python values are tagged         *)
(* records; Python's None is the JSON null.                                *)
(***************************************************************************)
EXTENDS Integers, Sequences, FiniteSets, TLC

(***************************************************************************)
(* Bounds of the model.                                                    *)
(***************************************************************************)
\* client calls made on one client object
MaxCalls == 3
\* frames pushed by the bridge and not yet received, over the three PULL sockets
MaxQueue == 2
\* the calls of connect() and collect_account_metrics() the collector loop makes
MaxCycles == 3

(***************************************************************************)
(* Program constants.                                                      *)
(***************************************************************************)
SYSTEM_PORT == 2201
DATA_PORT == 2202
LIVE_PORT == 2203
STREAM_PORT == 2204
SYSTEM_RCVTIMEO == 5000
DATA_RCVTIMEO == 5000
LIVE_RCVTIMEO == 1000
STREAM_RCVTIMEO == 1000
\* receive_data prints a frame in full below this many characters
VERBOSE_FULL_PRINT_LIMIT == 10000
\* HistoryDownloader: the receive timeouts of its two sockets
HISTORY_ACK_RCVTIMEO == 10000
HISTORY_DATA_RCVTIMEO == 3000000

(***************************************************************************)
(* Python values.                                                          *)
(***************************************************************************)
PyNone == [k |-> "null"]
PyBool(b) == [k |-> "bool", b |-> b]
\* a number is kept as its lexeme
PyNum(n) == [k |-> "num", n |-> n]
PyStr(s) == [k |-> "str", s |-> s]
PyList(items) == [k |-> "list", items |-> items]
\* a dict: its items in insertion order, each key once
PyDict(pairs) == [k |-> "dict", pairs |-> pairs]
Item(key, val) == [key |-> key, val |-> val]

IsDict(v) == v.k = "dict"
IsList(v) == v.k = "list"

HasKey(d, key) == \E i \in 1..Len(d.pairs) : d.pairs[i].key = key

\* d[key], for a key of d
DictGet(d, key) ==
    d.pairs[CHOOSE i \in 1..Len(d.pairs) : d.pairs[i].key = key].val

\* d.get(key, default)
DictGetDefault(d, key, default) ==
    IF HasKey(d, key) THEN DictGet(d, key) ELSE default

\* d[key] = val: a present key keeps its place and takes the new value
DictSet(d, key, val) ==
    IF HasKey(d, key)
    THEN PyDict([i \in 1..Len(d.pairs) |->
                    IF d.pairs[i].key = key THEN Item(key, val) ELSE d.pairs[i]])
    ELSE PyDict(Append(d.pairs, Item(key, val)))

\* Python's == on dicts does not look at the order of the items
DictKeys(d) == {d.pairs[i].key : i \in 1..Len(d.pairs)}

\* Python truthiness (`if ack:`, `if data and ...`)
Truthy(v) ==
    CASE v.k = "null" -> FALSE
      [] v.k = "bool" -> v.b
      [] v.k = "num" -> v.n \notin {"0", "0.0"}
      [] v.k = "str" -> v.s # ""
      [] v.k = "list" -> Len(v.items) > 0
      [] v.k = "dict" -> Len(v.pairs) > 0
      [] v.k = "text" -> v.toks # <<>>
      [] OTHER -> TRUE

(***************************************************************************)
(* Text frames.  A token is a quoted string literal (q) or a bare lexeme:  *)
(* punctuation, a literal name, a number, white space, anything else.      *)
(***************************************************************************)
Q(s) == [q |-> TRUE, s |-> s]
B(s) == [q |-> FALSE, s |-> s]

\* a run of VERBOSE_FULL_PRINT_LIMIT blanks: white space between JSON tokens
Pad == B("<blanks>")

NumberLexemes == {"0", "1", "10000", "9500", "500", "12345"}
\* json.loads also takes these names as numbers
PyConstantLexemes == {"NaN", "Infinity", "-Infinity"}

\* len(message), counting a token other than Pad as one character (it has at
\* least one): exact enough on which side of VERBOSE_FULL_PRINT_LIMIT a frame is
RECURSIVE MessageLen(_)
MessageLen(toks) ==
    IF toks = <<>> THEN 0
    ELSE (IF Head(toks) = Pad THEN VERBOSE_FULL_PRINT_LIMIT ELSE 1)
         + MessageLen(Tail(toks))

\* the decoder skips white space between tokens
SkipBlanks(toks) == SelectSeq(toks, LAMBDA t : t # Pad)

Failed == [ok |-> FALSE, v |-> PyNone, i |-> 0]
Parsed(v, i) == [ok |-> TRUE, v |-> v, i |-> i]

IsTok(t, i, s) == i <= Len(t) /\ ~t[i].q /\ t[i].s = s

\* json.loads' scanner: the value starting at token i, and the index after it
RECURSIVE ParseValue(_, _), ParseItems(_, _, _), ParseMembers(_, _, _)
ParseValue(t, i) ==
    IF i > Len(t) THEN Failed
    ELSE IF t[i].q THEN Parsed(PyStr(t[i].s), i + 1)
    ELSE IF t[i].s = "null" THEN Parsed(PyNone, i + 1)
    ELSE IF t[i].s = "true" THEN Parsed(PyBool(TRUE), i + 1)
    ELSE IF t[i].s = "false" THEN Parsed(PyBool(FALSE), i + 1)
    ELSE IF t[i].s \in NumberLexemes \cup PyConstantLexemes
         THEN Parsed(PyNum(t[i].s), i + 1)
    ELSE IF t[i].s = "["
         THEN IF IsTok(t, i + 1, "]") THEN Parsed(PyList(<<>>), i + 2)
              ELSE ParseItems(t, i + 1, <<>>)
    ELSE IF t[i].s = "{"
         THEN IF IsTok(t, i + 1, "}") THEN Parsed(PyDict(<<>>), i + 2)
              ELSE ParseMembers(t, i + 1, PyDict(<<>>))
    ELSE Failed

ParseItems(t, i, acc) ==
    LET r == ParseValue(t, i) IN
    IF ~r.ok THEN Failed
    ELSE IF IsTok(t, r.i, ",") THEN ParseItems(t, r.i + 1, Append(acc, r.v))
    ELSE IF IsTok(t, r.i, "]") THEN Parsed(PyList(Append(acc, r.v)), r.i + 1)
    ELSE Failed

ParseMembers(t, i, acc) ==
    IF ~(i <= Len(t) /\ t[i].q /\ IsTok(t, i + 1, ":")) THEN Failed
    ELSE LET r == ParseValue(t, i + 2) IN
         IF ~r.ok THEN Failed
         ELSE IF IsTok(t, r.i, ",")
              THEN ParseMembers(t, r.i + 1, DictSet(acc, t[i].s, r.v))
         ELSE IF IsTok(t, r.i, "}")
              THEN Parsed(DictSet(acc, t[i].s, r.v), r.i + 1)
         ELSE Failed

\* json.loads(message): ok is FALSE where it raises JSONDecodeError (no value,
\* or text after the value)
JsonLoads(message) ==
    LET t == SkipBlanks(message)
        r == ParseValue(t, 1)
    IN  IF r.ok /\ r.i = Len(t) + 1 THEN [ok |-> TRUE, v |-> r.v]
        ELSE [ok |-> FALSE, v |-> PyNone]

\* json.dumps(value)
RECURSIVE JsonDumps(_), DumpItems(_), DumpMembers(_)
JsonDumps(v) ==
    CASE v.k = "null" -> <<B("null")>>
      [] v.k = "bool" -> <<B(IF v.b THEN "true" ELSE "false")>>
      [] v.k = "num" -> <<B(v.n)>>
      [] v.k = "str" -> <<Q(v.s)>>
      [] v.k = "list" -> <<B("[")>> \o DumpItems(v.items) \o <<B("]")>>
      [] v.k = "dict" -> <<B("{")>> \o DumpMembers(v.pairs) \o <<B("}")>>

DumpItems(items) ==
    IF items = <<>> THEN <<>>
    ELSE JsonDumps(Head(items))
         \o (IF Len(items) > 1 THEN <<B(",")>> ELSE <<>>)
         \o DumpItems(Tail(items))

DumpMembers(pairs) ==
    IF pairs = <<>> THEN <<>>
    ELSE <<Q(Head(pairs).key), B(":")>> \o JsonDumps(Head(pairs).val)
         \o (IF Len(pairs) > 1 THEN <<B(",")>> ELSE <<>>)
         \o DumpMembers(Tail(pairs))

(***************************************************************************)
(* The inputs of the model: addresses, commands, frames, delays.           *)
(***************************************************************************)
\* the endpoints, in the order __init__ opens them and close() closes them
Endpoints == <<"system", "data", "live", "stream">>
EP == {"system", "data", "live", "stream"}
PullEP == {"data", "live", "stream"}
EpIndex(e) == CHOOSE i \in 1..Len(Endpoints) : Endpoints[i] = e
SocketAttr(e) == e \o "_socket"

DefaultPort(e) ==
    CASE e = "system" -> SYSTEM_PORT
      [] e = "data" -> DATA_PORT
      [] e = "live" -> LIVE_PORT
      [] e = "stream" -> STREAM_PORT

\* an __init__ that gave every socket the command socket's timeout
DefaultTimeout_AllAlike(e) == SYSTEM_RCVTIMEO

DefaultTimeout(e) ==
    CASE e = "system" -> SYSTEM_RCVTIMEO
      [] e = "data" -> DATA_RCVTIMEO
      [] e = "live" -> LIVE_RCVTIMEO
      [] e = "stream" -> STREAM_RCVTIMEO

SocketKind(e) == IF e = "system" THEN "REQ" ELSE "PULL"

\* "bad host" is a host name the transport refuses at connect time
Hosts == {"localhost", "bad host"}
\* a port argument of __init__: left out, or given
NoPort == [given |-> FALSE, port |-> 0]
GivenPort(p) == [given |-> TRUE, port |-> p]
\* the ports of the custom-ports test: 3001, 3002, 3003, 3004
CustomPorts == [e \in EP |-> GivenPort(3000 + EpIndex(e))]
\* -1 is a port the transport refuses at connect time
PortChoices(e) == {NoPort, GivenPort(-1)}
\* the port arguments of a construction: each left out or refused, or all custom
PortMaps == [EP -> UNION {PortChoices(e) : e \in EP}] \cup {CustomPorts}

\* an __init__ that connected to the default ports whatever it was given
PortOf_AlwaysDefault(e, arg) == DefaultPort(e)

\* the value of system_port, data_port, live_port, stream_port in __init__
PortOf(e, arg) == IF arg.given THEN arg.port ELSE DefaultPort(e)

\* f"tcp://{host}:{port}"
Address(h, port) == "tcp://" \o h \o ":" \o ToString(port)

\* zmq's check of "tcp://<host>:<port>" in connect(): a refused address raises
\* ZMQError there; whether anything listens at the address is not looked at
AddressAccepted(h, port) == h # "bad host" /\ port >= 0

Actions == {"ACCOUNT", "CONFIG"}
KwargChoices ==
    { <<>>,
      <<Item("symbol", PyStr("EURUSD")), Item("chartTF", PyStr("M1"))>> }

\* the send_command calls tried: ACCOUNT alone, CONFIG with its parameters
Commands ==
    {c \in [action : Actions, kwargs : KwargChoices] :
        c.action = "CONFIG" <=> c.kwargs # <<>>}

\* what the bridge may answer on the command endpoint
AckFrames == { <<B("OK")>>, <<>> }

\* what the bridge may push to the PULL sockets
AccountFrame ==
    JsonDumps(PyDict(<<Item("error", PyBool(FALSE)),
                       Item("data", PyDict(<<Item("balance", PyNum("10000"))>>))>>))
ErrorFrame ==
    JsonDumps(PyDict(<<Item("error", PyBool(TRUE)),
                       Item("description", PyStr("Invalid symbol"))>>))
NotJsonFrame == <<B("invalid"), B("json"), B("{")>>
NullFrame == <<B("null")>>
BigListFrame == <<B("["), B("1"), B(","), Pad, B("1"), B("]")>>
TickFrame == JsonDumps(PyDict(<<Item("symbol", PyStr("EURUSD"))>>))
TradeFrame ==
    JsonDumps(PyDict(<<Item("event", PyStr("trade")),
                       Item("ticket", PyNum("12345"))>>))

FramesOf(e) ==
    CASE e = "data" -> {AccountFrame, ErrorFrame, NotJsonFrame}
      [] e = "live" -> {TickFrame, NotJsonFrame}
      [] e = "stream" -> {TradeFrame, NotJsonFrame}
      [] e = "system" -> AckFrames

\* milliseconds until the frame a receive waits for arrives
Delays == {100, 7000}
\* the frame that arrives while a receive waits, if one does
NoArrival == [some |-> FALSE, frame |-> <<>>, delay |-> 0]
Arrival(f, d) == [some |-> TRUE, frame |-> f, delay |-> d]
\* the frames that may arrive while a receive on an empty socket waits
LateFramesOf(e) ==
    CASE e = "data" -> {AccountFrame, NotJsonFrame, NullFrame, BigListFrame}
      [] e = "live" -> {TickFrame}
      [] e = "stream" -> {TradeFrame}
      [] e = "system" -> AckFrames
Arrivals(e) ==
    {NoArrival} \cup {Arrival(f, d) : f \in LateFramesOf(e), d \in Delays}

\* timeout_ms of receive_data, receive_live, receive_stream; None by default
NoOverride == [given |-> FALSE, ms |-> 0]
Override(ms) == [given |-> TRUE, ms |-> ms]
TimeoutChoices == {NoOverride, Override(50), Override(10000)}

(***************************************************************************)
(* The state: one client object, its zmq context and sockets, the frames   *)
(* waiting in the PULL sockets, the outcome of the last call.              *)
(***************************************************************************)
VARIABLES
    life,       \* "new", "ready" (__init__ returned), "failed" (__init__ raised)
    attrs,      \* the attributes of self that are assigned
    verbose,    \* self.verbose
    context,    \* self.context: the zmq.Context
    sockets,    \* the zmq sockets of the four endpoints
    inbox,      \* per PULL socket, the frames that arrived and were not received
    unacked,    \* frames sent on the command endpoint since the last received ack
    calls,      \* calls made on the client
    last,       \* the call that has just ended: what it did and how it ended
    scope,      \* the `with` statement on the client: "out", "in" (its body
                \* runs), "left"
    threads,    \* the threads that call the client at the same time: the call
                \* of each, where it is in it, its local variables
    wire,       \* the requests sent on the command endpoint the bridge has not
                \* taken
    replies,    \* the acknowledgments that arrived at the command socket and
                \* were not received
    stale,      \* how many of the frames waiting in the result socket were
                \* waiting already when the last command frame was sent
    health,     \* scripts/healthcheck.py: the ports, the probes made, the exit
    collector,  \* monitoring/prometheus_exporter.py: the MT5MetricsCollector,
                \* the metrics, the bridge it talks to
    downloader  \* scripts/download_history.py: the HistoryDownloader and main()

\* the state of concurrent callers; one caller alone has none
conc == <<threads, wire, replies>>

vars == <<life, attrs, verbose, context, sockets, inbox, unacked, calls, last,
          scope, threads, wire, replies, stale, health, collector, downloader>>

\* the programs around the client; the client alone runs none of them
scripts == <<health, collector, downloader>>

\* the health check, the collector, the downloader: not started
NoHealth == [pc |-> "off"]
NoCollector ==
    [pc |-> "off", host |-> "", client |-> FALSE, cycles |-> 0, status |-> 0,
     gauges |-> <<>>, requests |-> 0, errors |-> 0, commands |-> 0, tags |-> <<>>,
     connect_ret |-> "none", it |-> <<>>]
NoDownload ==
    [pc |-> "off", symbol |-> "", timeframe |-> "", reply |-> <<>>, arrival |-> <<>>,
     sent |-> FALSE, awaiting |-> FALSE, raised |-> "", ret |-> PyNone,
     csv |-> FALSE, closed |-> FALSE]

\* no socket yet.  A new socket's ZMQ_RCVTIMEO is -1: wait for ever
NoSocket ==
    [made |-> FALSE, kind |-> "none", host |-> "", connected |-> FALSE,
     rcvtimeo |-> -1, closed |-> FALSE, closes |-> 0,
     awaiting |-> FALSE]

NoContext == [made |-> FALSE, closed |-> FALSE, terms |-> 0]

\* the outcome of a call.  raised: "" when the call returned, else the exception;
\* ret: the value returned; sent, took: the frames the call sent and consumed, each
\* with its endpoint; waited: the receive timeouts the call waited under; before:
\* the receive timeouts when the call began; steps: the transport calls of close();
\* unanswered: the REQ socket still awaited the reply to an earlier request when
\* the call began; closed_before: the context was terminated when the call began;
\* inbox_before: the frames waiting in the PULL sockets when the call began;
\* body: the exception the `with` body ended by, given to __exit__; propagated:
\* the exception that leaves the `with` statement; host, ports: the arguments
\* of __init__; stale_before: the oldest frame waiting in the result socket was
\* there before the last command frame was sent
Outcome(op, raised, ret) ==
    [op |-> op, raised |-> raised, ret |-> ret, sent |-> <<>>, took |-> <<>>,
     waited |-> <<>>, timedout |-> FALSE, override |-> NoOverride,
     before |-> [e \in EP |-> 0], steps |-> <<>>, action |-> "", kwargs |-> <<>>,
     unanswered |-> FALSE, closed_before |-> FALSE,
     inbox_before |-> [e \in PullEP |-> <<>>], body |-> "", propagated |-> "",
     host |-> "", ports |-> [e \in EP |-> NoPort], stale_before |-> FALSE]

\* the outcome of a call that begins now
Call(op) ==
    [Outcome(op, "", PyNone)
       EXCEPT !.before = [e \in EP |-> sockets[e].rcvtimeo],
              !.unanswered = sockets["system"].awaiting,
              !.closed_before = context.closed,
              !.inbox_before = inbox,
              !.stale_before = stale > 0]

OnWire(e, f) == [ep |-> e, frame |-> f]

\* no call has ended that the caller has not taken the outcome of
NoCall == Outcome("none", "", PyNone)
Idle == last = NoCall

\* the threads that may call the client at the same time
Threads == {"t1", "t2", "t3", "t4"}

\* a thread that makes no call
NoThread ==
    [op |-> "none", e |-> "", action |-> "", pc |-> "done", override |-> NoOverride,
     arrival |-> NoArrival, err |-> "", old |-> 0, raised |-> "", ret |-> PyNone,
     took |-> <<>>, gotfor |-> "", solo |-> [raised |-> "", ret |-> PyNone]]

\* one more call stays within MaxCalls; the body of a `with` statement leaves
\* one call for the __exit__ that ends it
MayCall == calls < MaxCalls - (IF scope = "in" THEN 1 ELSE 0)

Init ==
    /\ health = NoHealth /\ collector = NoCollector /\ downloader = NoDownload
    /\ threads = [t \in Threads |-> NoThread]
    /\ wire = <<>>
    /\ replies = <<>>
    /\ stale = 0
    /\ life = "new"
    /\ attrs = {}
    /\ verbose = FALSE
    /\ context = NoContext
    /\ sockets = [e \in EP |-> NoSocket]
    /\ inbox = [e \in PullEP |-> <<>>]
    /\ unacked = 0
    /\ calls = 0
    /\ last = NoCall
    /\ scope = "out"

(***************************************************************************)
(* JsonAPIClient.__init__                                                  *)
(***************************************************************************)
\* the first endpoint whose connect() raises, 0 when none does
FirstRefused(h, pm) ==
    IF \A e \in EP : AddressAccepted(h, pm[e]) THEN 0
    ELSE CHOOSE i \in 1..Len(Endpoints) :
            /\ ~AddressAccepted(h, pm[Endpoints[i]])
            /\ \A j \in 1..(i - 1) : AddressAccepted(h, pm[Endpoints[j]])

\* The sockets when __init__ ends: each endpoint's socket is created and then
\* connected, in order, up to the first connect() that raises; the receive
\* timeouts are set after all four connected.  The address each socket was
\* connected to is in the connect step of InitSteps; nothing reads it later.
InitSockets(h, pm) ==
    LET bad == FirstRefused(h, pm) IN
    [e \in EP |->
        IF bad # 0 /\ EpIndex(e) > bad THEN NoSocket
        ELSE [made |-> TRUE, kind |-> SocketKind(e), host |-> h,
              connected |-> (bad = 0 \/ EpIndex(e) < bad),
              rcvtimeo |-> IF bad = 0 THEN DefaultTimeout(e) ELSE NoSocket.rcvtimeo,
              closed |-> FALSE, closes |-> 0, awaiting |-> FALSE]]

InitAttrs(h, pm) ==
    {"host", "verbose", "context"}
      \cup {SocketAttr(e) : e \in {x \in EP : InitSockets(h, pm)[x].made}}

\* one call on the transport: zmq.Context(), context.socket(kind),
\* socket.connect(address), socket.setsockopt(zmq.RCVTIMEO, ms)
Step(call, e, arg) == [call |-> call, ep |-> e, arg |-> arg]

RECURSIVE OpenSteps(_, _, _)
\* the socket() and connect() calls of __init__ for endpoints i and after, up
\* to and with the first connect() that raises
OpenSteps(h, pm, i) ==
    IF i > Len(Endpoints) THEN <<>>
    ELSE LET e == Endpoints[i] IN
         <<Step("socket", e, SocketKind(e)), Step("connect", e, Address(h, pm[e]))>>
           \o (IF AddressAccepted(h, pm[e]) THEN OpenSteps(h, pm, i + 1) ELSE <<>>)

\* the transport calls __init__ makes, in order
InitSteps(h, pm) ==
    <<Step("Context", "", "")>> \o OpenSteps(h, pm, 1)
      \o (IF FirstRefused(h, pm) = 0
          THEN [i \in 1..Len(Endpoints) |->
                   Step("setsockopt", Endpoints[i],
                        ToString(DefaultTimeout(Endpoints[i])))]
          ELSE <<>>)

\* the constructions tried
Constructions == [host : Hosts, ports : PortMaps, verbose : BOOLEAN]

\* JsonAPIClient(host=h, system_port=..., ..., verbose=v), the ports as in pa
Construct(h, pa, v) ==
    LET pm == [e \in EP |-> PortOf(e, pa[e])] IN
    /\ life = "new"
    /\ Idle
    /\ verbose' = v
    /\ context' = [made |-> TRUE, closed |-> FALSE, terms |-> 0]
    /\ sockets' = InitSockets(h, pm)
    /\ attrs' = InitAttrs(h, pm)
    /\ life' = IF FirstRefused(h, pm) = 0 THEN "ready" ELSE "failed"
    /\ last' = [Call("__init__") EXCEPT
                  !.raised = IF FirstRefused(h, pm) = 0 THEN "" ELSE "ZMQError",
                  !.steps = InitSteps(h, pm),
                  !.host = h, !.ports = pa]
    /\ UNCHANGED <<inbox, unacked, calls, scope, conc, scripts, stale>>

(***************************************************************************)
(* The transport, as the client sees it.                                   *)
(***************************************************************************)
\* a frame that arrives after `delay` ms is received by a receive that waits
\* `timeout` ms; a negative timeout waits for ever
Within(delay, timeout) == timeout < 0 \/ delay <= timeout

\* a socket with no request-reply discipline (a DEALER in place of the REQ)
ReqSendError_NoDiscipline(s) == IF s.closed THEN "ZMQError(ENOTSOCK)" ELSE ""

\* send_string on the REQ socket: "" when the frame is sent, else what ZMQError
\* it raises.  A REQ socket that sent a request takes no other before the reply
\* to it is received.
ReqSendError(s) ==
    IF s.closed THEN "ZMQError(ENOTSOCK)"
    ELSE IF s.awaiting THEN "ZMQError(EFSM)"
    ELSE ""

\* the value of recv_string(): the frame's text
PyText(frame) == [k |-> "text", toks |-> frame]

\* a PULL socket that handed out the newest waiting frame
PullRecv_TakesNewest(e, timeout, arrival) ==
    IF inbox[e] # <<>>
    THEN [got |-> TRUE, frame |-> inbox[e][Len(inbox[e])], queued |-> TRUE]
    ELSE IF arrival.some /\ Within(arrival.delay, timeout)
         THEN [got |-> TRUE, frame |-> arrival.frame, queued |-> FALSE]
    ELSE [got |-> FALSE, frame |-> <<>>, queued |-> FALSE]

\* recv_string on PULL socket e: the oldest waiting frame, or the one that
\* arrives within the timeout, or zmq.Again
PullRecv(e, timeout, arrival) ==
    IF inbox[e] # <<>> THEN [got |-> TRUE, frame |-> Head(inbox[e]), queued |-> TRUE]
    ELSE IF arrival.some /\ Within(arrival.delay, timeout)
         THEN [got |-> TRUE, frame |-> arrival.frame, queued |-> FALSE]
    ELSE [got |-> FALSE, frame |-> <<>>, queued |-> FALSE]

Pending == Len(inbox["data"]) + Len(inbox["live"]) + Len(inbox["stream"])

(***************************************************************************)
(* JsonAPIClient.send_command                                              *)
(***************************************************************************)
RECURSIVE Merge(_, _)
Merge(d, pairs) ==
    IF pairs = <<>> THEN d
    ELSE Merge(DictSet(d, Head(pairs).key, Head(pairs).val), Tail(pairs))

\* command = {"action": action, **kwargs}
BuildCommand(action, kwargs) ==
    Merge(PyDict(<<Item("action", PyStr(action))>>), kwargs)

\* send_command without its `except zmq.Again`
AckTimeoutResult_Uncaught == [raised |-> "zmq.Again", ret |-> PyNone]

\* what send_command returns when recv_string raises zmq.Again
AckTimeoutResult == [raised |-> "", ret |-> PyNone]

\* the transport calls of send_command: one send_string, then one recv_string
\* unless the send raised
SendCommandSteps(err) ==
    <<Step("send_string", "system", "")>>
      \o (IF err = "" THEN <<Step("recv_string", "system", "")>> ELSE <<>>)

\* a send_command that handed the acknowledgment to json.loads
AckResult_Parsed(frame) ==
    LET p == JsonLoads(frame) IN
    [raised |-> IF p.ok THEN "" ELSE "JSONDecodeError",
     ret |-> IF p.ok THEN p.v ELSE PyNone]

\* what send_command returns when recv_string returned: the frame's text
AckResult(frame) == [raised |-> "", ret |-> PyText(frame)]

SendCommand(action, kwargs, reply) ==
    LET s == sockets["system"]
        message == JsonDumps(BuildCommand(action, kwargs))
        err == ReqSendError(s)
        got == reply.some /\ Within(reply.delay, s.rcvtimeo)
        res == IF got THEN AckResult(reply.frame) ELSE AckTimeoutResult
        call == [Call("send_command") EXCEPT !.action = action, !.kwargs = kwargs]
    IN  /\ life = "ready"
        /\ Idle
        /\ MayCall
        /\ calls' = calls + 1
        /\ IF err # ""
           THEN /\ last' = [call EXCEPT !.raised = err, !.steps = SendCommandSteps(err)]
                /\ UNCHANGED <<sockets, unacked>>
           ELSE /\ sockets' = [sockets EXCEPT !["system"].awaiting = ~got]
                /\ unacked' = IF got THEN 0 ELSE unacked + 1
                /\ last' = [call EXCEPT
                              !.raised = res.raised, !.ret = res.ret,
                              !.steps = SendCommandSteps(err),
                              !.sent = <<OnWire("system", message)>>,
                              !.took = IF got THEN <<OnWire("system", reply.frame)>>
                                       ELSE <<>>,
                              !.waited = <<[ep |-> "system", ms |-> s.rcvtimeo]>>,
                              !.timedout = ~got]
        \* the frames waiting in the result socket stay: they are older than
        \* the command sent now
        /\ stale' = IF err = "" THEN Len(inbox["data"]) ELSE stale
        /\ UNCHANGED <<life, attrs, verbose, context, inbox, scope, conc, scripts>>

(***************************************************************************)
(* JsonAPIClient.receive_data, receive_live, receive_stream                *)
(***************************************************************************)
\* receive_data without its `except json.JSONDecodeError`
DecodeErrorResult_Uncaught == [raised |-> "JSONDecodeError", ret |-> PyNone]

\* what receive_data returns for a frame json.loads rejects
DecodeErrorResult ==
    [raised |-> "",
     ret |-> PyDict(<<Item("error", PyBool(TRUE)),
                      Item("description", PyStr("JSON decode error")),
                      Item("raw_error", PyStr("<the decoder's message>"))>>)]

\* the verbose printing of receive_data: frames of VERBOSE_FULL_PRINT_LIMIT
\* characters and more are summarised through data.get, which only a dict has
VerbosePrintError(message, data) ==
    IF verbose /\ MessageLen(message) >= VERBOSE_FULL_PRINT_LIMIT /\ ~IsDict(data)
    THEN "AttributeError" ELSE ""

\* receive_data, from the frame received on
DataResult(message) ==
    LET p == JsonLoads(message) IN
    IF ~p.ok THEN DecodeErrorResult
    ELSE IF VerbosePrintError(message, p.v) # ""
         THEN [raised |-> VerbosePrintError(message, p.v), ret |-> PyNone]
    ELSE [raised |-> "", ret |-> p.v]

\* a receive_live and receive_stream with receive_data's except clause
PlainResult_Envelope(message) ==
    LET p == JsonLoads(message) IN
    IF ~p.ok THEN DecodeErrorResult
    ELSE [raised |-> "", ret |-> p.v]

\* receive_live and receive_stream, from the frame received on
PlainResult(message) ==
    LET p == JsonLoads(message) IN
    IF ~p.ok THEN [raised |-> "JSONDecodeError", ret |-> PyNone]
    ELSE [raised |-> "", ret |-> p.v]

\* the three without their `except zmq.Again`
RecvTimeoutResult_Uncaught == [raised |-> "zmq.Again", ret |-> PyNone]

\* what the three return when recv_string raises zmq.Again
RecvTimeoutResult == [raised |-> "", ret |-> PyNone]

\* the socket's receive timeout while the call waits
EffectiveTimeout(s, timeout_ms) == IF timeout_ms.given THEN timeout_ms.ms ELSE s.rcvtimeo

\* receive_data without its finally clause
RestoredTimeout_NotRestored(old, current, timeout_ms) == current

\* the socket's receive timeout when the call ends (the finally clause)
RestoredTimeout(old, current, timeout_ms) == IF timeout_ms.given THEN old ELSE current

\* a receive that tries once more after zmq.Again
ReceiveSteps_TriesAgain(e, s, timeout_ms, got) ==
    IF timeout_ms.given
    THEN <<Step("getsockopt", e, "")>>
           \o (IF s.closed THEN <<>>
               ELSE <<Step("setsockopt", e, ToString(timeout_ms.ms)),
                      Step("recv_string", e, "")>>
                      \o (IF got THEN <<>> ELSE <<Step("recv_string", e, "")>>)
                      \o <<Step("setsockopt", e, ToString(s.rcvtimeo))>>)
    ELSE <<Step("recv_string", e, "")>>
           \o (IF got \/ s.closed THEN <<>> ELSE <<Step("recv_string", e, "")>>)

\* the transport calls of receive_data, receive_live, receive_stream on socket
\* s of endpoint e; a closed socket raises at the first of them
ReceiveSteps(e, s, timeout_ms, got) ==
    IF timeout_ms.given
    THEN <<Step("getsockopt", e, "")>>
           \o (IF s.closed THEN <<>>
               ELSE <<Step("setsockopt", e, ToString(timeout_ms.ms)),
                      Step("recv_string", e, ""),
                      Step("setsockopt", e, ToString(s.rcvtimeo))>>)
    ELSE <<Step("recv_string", e, "")>>

\* a restore written after the try statement: skipped when the try block raises
RestoreRuns_OnlyOnReturn(raised) == raised = ""

\* the restore is in a finally clause: it runs however the try block ends
RestoreRuns(raised) == TRUE

\* the three receive operations on their sockets
Receive(op, e, timeout_ms, arrival) ==
    LET s == sockets[e]
        old == s.rcvtimeo
        eff == EffectiveTimeout(s, timeout_ms)
        r == PullRecv(e, eff, arrival)
        res == IF ~r.got THEN RecvTimeoutResult
               ELSE IF op = "receive_data" THEN DataResult(r.frame)
               ELSE PlainResult(r.frame)
        call == [Call(op) EXCEPT !.override = timeout_ms,
                                 !.steps = ReceiveSteps(e, s, timeout_ms, r.got)]
    IN  /\ life = "ready"
        /\ Idle
        /\ MayCall
        /\ calls' = calls + 1
        \* nothing is waited for when a frame is there, or the socket is closed
        /\ (inbox[e] # <<>> \/ s.closed) => arrival = NoArrival
        /\ IF s.closed
           THEN /\ last' = [call EXCEPT !.raised = "ZMQError(ENOTSOCK)"]
                /\ UNCHANGED <<sockets, inbox>>
           ELSE /\ sockets' = [sockets EXCEPT
                                 ![e].rcvtimeo =
                                     IF RestoreRuns(res.raised)
                                     THEN RestoredTimeout(old, eff, timeout_ms)
                                     ELSE eff]
                /\ inbox' = IF r.queued THEN [inbox EXCEPT ![e] = Tail(@)] ELSE inbox
                /\ last' = [call EXCEPT
                              !.raised = res.raised, !.ret = res.ret,
                              !.took = IF r.got THEN <<OnWire(e, r.frame)>> ELSE <<>>,
                              !.waited = <<[ep |-> e, ms |-> eff]>>,
                              !.timedout = ~r.got]
        /\ stale' = IF e = "data" /\ ~s.closed /\ r.queued /\ stale > 0
                     THEN stale - 1 ELSE stale
        /\ UNCHANGED <<life, attrs, verbose, context, unacked, scope, conc, scripts>>

ReceiveData(timeout_ms, arrival) == Receive("receive_data", "data", timeout_ms, arrival)
ReceiveLive(timeout_ms, arrival) == Receive("receive_live", "live", timeout_ms, arrival)
ReceiveStream(timeout_ms, arrival) ==
    Receive("receive_stream", "stream", timeout_ms, arrival)

(***************************************************************************)
(* JsonAPIClient.close                                                     *)
(***************************************************************************)
\* close() takes self.system_socket, self.data_socket, self.live_socket,
\* self.stream_socket in turn: the first that was never assigned raises
\* AttributeError and ends the call.  5 when all four are there.
CloseStopsAt(have) ==
    IF \A i \in 1..Len(Endpoints) : SocketAttr(Endpoints[i]) \in have
    THEN Len(Endpoints) + 1
    ELSE CHOOSE i \in 1..Len(Endpoints) :
            /\ SocketAttr(Endpoints[i]) \notin have
            /\ \A j \in 1..(i - 1) : SocketAttr(Endpoints[j]) \in have

\* close() terminating the context before it closes the sockets
CloseSteps_TermFirst(have) ==
    (IF CloseStopsAt(have) > Len(Endpoints) THEN <<"term">> ELSE <<>>)
      \o [i \in 1..(CloseStopsAt(have) - 1) |-> "close " \o Endpoints[i]]

\* a close() that left the quote socket out
CloseSteps_SkipsLive(have) ==
    SelectSeq([i \in 1..(CloseStopsAt(have) - 1) |-> "close " \o Endpoints[i]],
              LAMBDA st : st # "close live")
      \o (IF CloseStopsAt(have) > Len(Endpoints) THEN <<"term">> ELSE <<>>)

\* the transport calls close() makes, in order
CloseSteps(have) ==
    [i \in 1..(CloseStopsAt(have) - 1) |-> "close " \o Endpoints[i]]
      \o (IF CloseStopsAt(have) > Len(Endpoints) THEN <<"term">> ELSE <<>>)

\* Socket.close(): closing a closed socket does nothing
SocketClose(s) ==
    IF s.closed THEN s
    ELSE [s EXCEPT !.closed = TRUE, !.closes = @ + 1, !.awaiting = FALSE]

\* Context.term(): terminating a terminated context does nothing
ContextTerm(c) ==
    IF c.closed THEN c ELSE [c EXCEPT !.closed = TRUE, !.terms = @ + 1]

\* close() dropping its reference to the context it terminated
AttrsAfterClose_Forgets(have) == have \ {"context"}

\* the attributes of self when close() ends
AttrsAfterClose(have) == have

\* the exception close() ends by, "" when it returns
CloseRaises(have) ==
    IF "context" \in have /\ CloseStopsAt(have) > Len(Endpoints) THEN ""
    ELSE "AttributeError"

\* the transport calls close() gets to make
CloseMade(have) == IF "context" \in have THEN CloseSteps(have) ELSE <<>>

\* what close() does to the sockets, the context and the attributes
CloseDoes ==
    LET steps == CloseMade(attrs)
        hit == {e \in EP : \E i \in 1..Len(steps) : steps[i] = "close " \o e}
        term == \E i \in 1..Len(steps) : steps[i] = "term"
    IN  /\ sockets' = [e \in EP |-> IF e \in hit THEN SocketClose(sockets[e])
                                    ELSE sockets[e]]
        /\ context' = IF term THEN ContextTerm(context) ELSE context
        /\ inbox' = [e \in PullEP |-> IF e \in hit THEN <<>> ELSE inbox[e]]
        /\ attrs' = IF "context" \in attrs THEN AttrsAfterClose(attrs) ELSE attrs
        /\ stale' = IF "data" \in hit THEN 0 ELSE stale

Close ==
    /\ life \in {"ready", "failed"}
    /\ Idle
    /\ MayCall
    /\ calls' = calls + 1
    /\ CloseDoes
    /\ last' = [Call("close") EXCEPT !.raised = CloseRaises(attrs),
                                     !.steps = CloseMade(attrs)]
    /\ UNCHANGED <<life, verbose, unacked, scope, conc, scripts>>

(***************************************************************************)
(* JsonAPIClient.__enter__, __exit__: `with JsonAPIClient(...) as client:`  *)
(***************************************************************************)
\* how the body of the `with` statement may end: "" normally, else by raising
BodyEnds == {"", "ValueError", "KeyboardInterrupt"}

\* __enter__ is called on the object __init__ returned, before any other call
Enter ==
    /\ life = "ready"
    /\ scope = "out"
    /\ Idle
    /\ calls = 0
    /\ scope' = "in"
    /\ last' = [Call("__enter__") EXCEPT !.ret = PyStr("<self>")]
    /\ UNCHANGED <<life, attrs, verbose, context, sockets, inbox, unacked, calls, conc, scripts,
                   stale>>

\* an __exit__ that returned True
ExitReturn_True == PyBool(TRUE)

\* __exit__ has no return statement
ExitReturn == PyNone

\* the exception that leaves the `with` statement: the one __exit__ raised, else
\* the body's unless __exit__ returned a true value
Propagated(body, raised, ret) ==
    IF raised # "" THEN raised
    ELSE IF body # "" /\ ~Truthy(ret) THEN body
    ELSE ""

\* the body of the `with` statement ended: __exit__(exc_type, exc_val, exc_tb)
\* calls close()
Exit(body) ==
    /\ life = "ready"
    /\ scope = "in"
    /\ Idle
    /\ calls < MaxCalls
    /\ calls' = calls + 1
    /\ scope' = "left"
    /\ CloseDoes
    /\ last' = [Call("__exit__") EXCEPT
                  !.raised = CloseRaises(attrs),
                  !.ret = IF CloseRaises(attrs) = "" THEN ExitReturn ELSE PyNone,
                  !.steps = CloseMade(attrs),
                  !.body = body,
                  !.propagated = Propagated(body, CloseRaises(attrs), ExitReturn)]
    /\ UNCHANGED <<life, verbose, unacked, conc, scripts>>

(***************************************************************************)
(* The bridge pushes a frame to one of the PULL sockets.                   *)
(***************************************************************************)
BridgePush(e, f) ==
    /\ life = "ready"
    /\ Idle
    /\ ~sockets[e].closed
    /\ Pending < MaxQueue
    /\ inbox' = [inbox EXCEPT ![e] = Append(@, f)]
    /\ UNCHANGED <<life, attrs, verbose, context, sockets, unacked, calls, last, scope,
                   conc, scripts, stale>>

(***************************************************************************)
(* The caller takes the outcome of the call that ended and goes on.        *)
(***************************************************************************)
Resume ==
    /\ ~Idle
    /\ last' = NoCall
    /\ UNCHANGED <<life, attrs, verbose, context, sockets, inbox, unacked, calls, scope,
                   conc, scripts, stale>>

Next ==
    \/ \E c \in Constructions : Construct(c.host, c.ports, c.verbose)
    \/ \E c \in Commands, r \in Arrivals("system") :
          SendCommand(c.action, c.kwargs, r)
    \/ \E t \in TimeoutChoices, r \in Arrivals("data") : ReceiveData(t, r)
    \/ \E t \in TimeoutChoices, r \in Arrivals("live") : ReceiveLive(t, r)
    \/ \E t \in TimeoutChoices, r \in Arrivals("stream") : ReceiveStream(t, r)
    \/ Close
    \/ Enter
    \/ \E body \in BodyEnds : Exit(body)
    \/ Resume
    \/ \E e \in PullEP : \E f \in FramesOf(e) : BridgePush(e, f)

Spec == Init /\ [][Next]_vars

(***************************************************************************)
(* Several threads call one client at the same time.  Each thread makes    *)
(* one call; a step is one call on the transport.  The client has no lock  *)
(* and the zmq socket is not thread-safe.                                   *)
(***************************************************************************)
\* what the steps of the threads leave alone
client == <<life, attrs, verbose, context, calls, last, scope, stale>>

\* a receive_live that read the result socket
EndpointOf_LiveOnData(op) ==
    CASE op = "send_command" -> "system"
      [] op = "receive_data" -> "data"
      [] op = "receive_live" -> "data"
      [] op = "receive_stream" -> "stream"
      [] OTHER -> ""

\* the endpoint whose socket the method uses
EndpointOf(op) ==
    CASE op = "send_command" -> "system"
      [] op = "receive_data" -> "data"
      [] op = "receive_live" -> "live"
      [] op = "receive_stream" -> "stream"
      [] OTHER -> ""

\* thread t is to call op
ThreadCall(op, action, timeout_ms, arrival) ==
    [NoThread EXCEPT !.op = op, !.e = EndpointOf(op), !.action = action,
                     !.pc = "start", !.override = timeout_ms, !.arrival = arrival]

ThreadOverrides == {NoOverride, Override(50)}
\* the frame that may arrive while a thread waits on endpoint e
ThreadFrame(e) ==
    CASE e = "system" -> <<B("OK")>>
      [] e = "data" -> AccountFrame
      [] e = "live" -> TickFrame
      [] e = "stream" -> TradeFrame
ThreadArrivals(e) == {NoArrival, Arrival(ThreadFrame(e), 100)}

\* the four methods at once, each on its endpoint
IndependentPlans ==
    {[t \in Threads |->
        CASE t = "t1" -> ThreadCall("send_command", "ACCOUNT", NoOverride, r)
          [] t = "t2" -> ThreadCall("receive_data", "", o2, a2)
          [] t = "t3" -> ThreadCall("receive_live", "", o3, a3)
          [] t = "t4" -> ThreadCall("receive_stream", "", o4, a4)] :
        r \in ThreadArrivals("system"),
        o2 \in ThreadOverrides, a2 \in ThreadArrivals("data"),
        o3 \in ThreadOverrides, a3 \in ThreadArrivals("live"),
        o4 \in ThreadOverrides, a4 \in ThreadArrivals("stream")}

\* two threads in send_command at once
SenderPlans ==
    {[t \in Threads |->
        CASE t = "t1" -> ThreadCall("send_command", "ACCOUNT", NoOverride, r1)
          [] t = "t2" -> ThreadCall("send_command", "CONFIG", NoOverride, r2)
          [] OTHER -> NoThread] :
        r1 \in ThreadArrivals("system"), r2 \in ThreadArrivals("system")}

ThreadPlans == IndependentPlans \cup SenderPlans

\* the frames waiting in the PULL sockets when the threads start
ThreadInboxes ==
    { [e \in PullEP |-> <<>>],
      [e \in PullEP |->
          CASE e = "data" -> <<AccountFrame, ErrorFrame>>
            [] e = "live" -> <<TickFrame>>
            [] e = "stream" -> <<NotJsonFrame, TradeFrame>>] }

\* how the call of thread record th ends when no other thread runs
Solo(th) ==
    IF th.op = "send_command"
    THEN IF th.arrival.some /\ Within(th.arrival.delay, sockets[th.e].rcvtimeo)
         THEN AckResult(th.arrival.frame) ELSE AckTimeoutResult
    ELSE IF th.op = "none" THEN NoThread.solo
    ELSE LET r == PullRecv(th.e, EffectiveTimeout(sockets[th.e], th.override),
                           th.arrival)
         IN  IF ~r.got THEN RecvTimeoutResult
             ELSE IF th.op = "receive_data" THEN DataResult(r.frame)
             ELSE PlainResult(r.frame)

\* a client built with the defaults, frames waiting or not, the threads at the
\* start of their calls
ThreadInit ==
    LET pm == [e \in EP |-> PortOf(e, NoPort)] IN
    /\ life = "ready"
    /\ attrs = InitAttrs("localhost", pm)
    /\ verbose = FALSE
    /\ context = [made |-> TRUE, closed |-> FALSE, terms |-> 0]
    /\ sockets = InitSockets("localhost", pm)
    /\ inbox \in ThreadInboxes
    /\ unacked = 0
    /\ calls = 0
    /\ last = NoCall
    /\ scope = "out"
    /\ wire = <<>>
    /\ replies = <<>>
    /\ stale = 0
    /\ health = NoHealth /\ collector = NoCollector /\ downloader = NoDownload
    /\ \E p \in ThreadPlans :
          threads = [t \in Threads |-> [p[t] EXCEPT !.solo = Solo(p[t])]]

\* a send_command that took a lock no other thread in send_command holds
MayEnter_Locked(t) ==
    \A u \in Threads \ {t} :
        ~(threads[u].op = "send_command" /\ threads[u].pc \in {"sending", "receiving"})

\* send_command takes no lock: a thread enters it whatever the others do
MayEnter(t) == TRUE

\* send_string on the REQ socket, first half: the socket looks whether it may
\* send.  Another thread may be in the socket between this and the second half.
ThreadSendCheck(t) ==
    LET th == threads[t] IN
    /\ th.op = "send_command"
    /\ th.pc = "start"
    /\ MayEnter(t)
    /\ threads' = [threads EXCEPT ![t].pc = "sending",
                                  ![t].err = ReqSendError(sockets[th.e])]
    /\ UNCHANGED <<client, scripts, sockets, inbox, unacked, wire, replies>>

\* send_string, second half: the frame goes out and the socket awaits the reply,
\* or ZMQError is raised; then the thread is in recv_string
ThreadSendAct(t) ==
    LET th == threads[t] IN
    /\ th.op = "send_command"
    /\ th.pc = "sending"
    /\ IF th.err # ""
       THEN /\ threads' = [threads EXCEPT ![t].pc = "done", ![t].raised = th.err]
            /\ UNCHANGED <<sockets, unacked, wire>>
       ELSE /\ wire' = Append(wire, [from |-> t,
                                     frame |-> JsonDumps(BuildCommand(th.action, <<>>))])
            /\ sockets' = [sockets EXCEPT ![th.e].awaiting = TRUE]
            /\ unacked' = unacked + 1
            /\ threads' = [threads EXCEPT ![t].pc = "receiving"]
    /\ UNCHANGED <<client, scripts, inbox, replies>>

\* the bridge takes the oldest request and acknowledges it, or never does
ThreadBridgeAck ==
    /\ wire # <<>>
    /\ LET rq == Head(wire)
           a == threads[rq.from].arrival
       IN  replies' = IF a.some /\ Within(a.delay, sockets["system"].rcvtimeo)
                      THEN Append(replies, [for |-> rq.from, frame |-> a.frame])
                      ELSE replies
    /\ wire' = Tail(wire)
    /\ UNCHANGED <<client, scripts, sockets, inbox, unacked, threads>>

\* recv_string on the REQ socket ends: with the oldest acknowledgment that
\* arrived, whichever request it answers, or with zmq.Again
ThreadAckRecv(t) ==
    LET th == threads[t] IN
    /\ th.op = "send_command"
    /\ th.pc = "receiving"
    /\ IF replies # <<>>
       THEN LET res == AckResult(Head(replies).frame) IN
            /\ threads' = [threads EXCEPT
                              ![t].pc = "done", ![t].raised = res.raised,
                              ![t].ret = res.ret,
                              ![t].took = <<OnWire(th.e, Head(replies).frame)>>,
                              ![t].gotfor = Head(replies).for]
            /\ replies' = Tail(replies)
            /\ sockets' = [sockets EXCEPT ![th.e].awaiting = FALSE]
            /\ unacked' = 0
       ELSE /\ wire = <<>>
            /\ threads' = [threads EXCEPT
                              ![t].pc = "done", ![t].raised = AckTimeoutResult.raised,
                              ![t].ret = AckTimeoutResult.ret]
            /\ UNCHANGED <<replies, sockets, unacked>>
    /\ UNCHANGED <<client, scripts, inbox, wire>>

IsReceive(op) == op \in {"receive_data", "receive_live", "receive_stream"}

\* old_timeout = socket.getsockopt(zmq.RCVTIMEO)
ThreadGetOpt(t) ==
    LET th == threads[t] IN
    /\ IsReceive(th.op)
    /\ th.pc = "start"
    /\ th.override.given
    /\ threads' = [threads EXCEPT ![t].pc = "read", ![t].old = sockets[th.e].rcvtimeo]
    /\ UNCHANGED <<client, scripts, sockets, inbox, unacked, wire, replies>>

\* socket.setsockopt(zmq.RCVTIMEO, timeout_ms)
ThreadSetOpt(t) ==
    LET th == threads[t] IN
    /\ IsReceive(th.op)
    /\ th.pc = "read"
    /\ sockets' = [sockets EXCEPT ![th.e].rcvtimeo = th.override.ms]
    /\ threads' = [threads EXCEPT ![t].pc = "receiving"]
    /\ UNCHANGED <<client, scripts, inbox, unacked, wire, replies>>

\* recv_string on the PULL socket under the timeout the socket has now, and
\* json.loads of the frame
ThreadPullRecv(t) ==
    LET th == threads[t]
        r == PullRecv(th.e, sockets[th.e].rcvtimeo, th.arrival)
        res == IF ~r.got THEN RecvTimeoutResult
               ELSE IF th.op = "receive_data" THEN DataResult(r.frame)
               ELSE PlainResult(r.frame)
    IN  /\ IsReceive(th.op)
        /\ th.pc = "receiving" \/ (th.pc = "start" /\ ~th.override.given)
        /\ inbox' = IF r.queued THEN [inbox EXCEPT ![th.e] = Tail(@)] ELSE inbox
        /\ threads' = [threads EXCEPT
                          ![t].pc = IF th.override.given THEN "received" ELSE "done",
                          ![t].raised = res.raised, ![t].ret = res.ret,
                          ![t].took = IF r.got THEN <<OnWire(th.e, r.frame)>> ELSE <<>>]
        /\ UNCHANGED <<client, scripts, sockets, unacked, wire, replies>>

\* the finally clause: socket.setsockopt(zmq.RCVTIMEO, old_timeout)
ThreadRestore(t) ==
    LET th == threads[t] IN
    /\ IsReceive(th.op)
    /\ th.pc = "received"
    /\ sockets' = [sockets EXCEPT
                      ![th.e].rcvtimeo =
                          RestoredTimeout(th.old, sockets[th.e].rcvtimeo, th.override)]
    /\ threads' = [threads EXCEPT ![t].pc = "done"]
    /\ UNCHANGED <<client, scripts, inbox, unacked, wire, replies>>

\* thread t is inside send_string or recv_string on the REQ socket
Inside(t) ==
    threads[t].op = "send_command" /\ threads[t].pc \in {"sending", "receiving"}

\* two threads inside one zmq socket at once is a data race in libzmq: besides
\* the interleavings above, the process may abort
ThreadCrash ==
    /\ \E t, u \in Threads : t # u /\ Inside(t) /\ Inside(u)
    /\ threads' = [t \in Threads |->
                      IF threads[t].op = "none" THEN threads[t]
                      ELSE [threads[t] EXCEPT !.pc = "aborted"]]
    /\ UNCHANGED <<client, scripts, sockets, inbox, unacked, wire, replies>>

ThreadNext ==
    \/ \E t \in Threads : ThreadSendCheck(t)
    \/ \E t \in Threads : ThreadSendAct(t)
    \/ \E t \in Threads : ThreadAckRecv(t)
    \/ \E t \in Threads : ThreadGetOpt(t)
    \/ \E t \in Threads : ThreadSetOpt(t)
    \/ \E t \in Threads : ThreadPullRecv(t)
    \/ \E t \in Threads : ThreadRestore(t)
    \/ ThreadBridgeAck
    \/ ThreadCrash

ThreadSpec == ThreadInit /\ [][ThreadNext]_vars

(***************************************************************************)
(* scripts/healthcheck.py                                                   *)
(***************************************************************************)
\* every variable of the client and of its callers
clientvars ==
    <<life, attrs, verbose, context, sockets, inbox, unacked, calls, last, scope,
      threads, wire, replies, stale>>

\* no client object, no thread
NoClient ==
    /\ threads = [t \in Threads |-> NoThread]
    /\ wire = <<>>
    /\ replies = <<>>
    /\ stale = 0
    /\ life = "new"
    /\ attrs = {}
    /\ verbose = FALSE
    /\ context = NoContext
    /\ sockets = [e \in EP |-> NoSocket]
    /\ inbox = [e \in PullEP |-> <<>>]
    /\ unacked = 0
    /\ calls = 0
    /\ last = NoCall
    /\ scope = "out"

\* the keys of PORTS, in the order of the dict
HealthPorts == <<2201, 2202, 2203, 2204>>

\* check_port, by what becomes of the connection attempt: "accepted",
\* "refused" and "timeout" are results of connect_ex (its errno, 0 when
\* connected), "raised" is an exception in check_port
CheckPort(outcome) ==
    LET result == CASE outcome = "accepted" -> 0
                    [] outcome = "refused" -> 111
                    [] outcome = "timeout" -> 11
                    [] OTHER -> -1
    IN  IF outcome = "raised" THEN FALSE ELSE result = 0

\* a loop that stops at the first port that fails
NextProbe_StopsAtFailure(i, ok) == IF ok THEN i + 1 ELSE Len(HealthPorts) + 1

\* `for port, description in PORTS.items()`: the loop has no break
NextProbe(i, ok) == i + 1

\* main() starts: no check has failed yet
HealthInit ==
    /\ NoClient
    /\ collector = NoCollector
    /\ downloader = NoDownload
    /\ \E net \in [1..Len(HealthPorts) -> {"accepted", "refused", "timeout", "raised"}] :
          health = [pc |-> "loop", net |-> net, i |-> 1, probed |-> <<>>,
                    failed_checks |-> <<>>, exit |-> -1, printed |-> ""]

\* one turn of the loop of main()
HealthCheckPort ==
    /\ health.pc = "loop"
    /\ health.i <= Len(HealthPorts)
    /\ LET port == HealthPorts[health.i]
           ok == CheckPort(health.net[health.i])
       IN  health' = [health EXCEPT
                        !.probed = Append(@, port),
                        !.failed_checks = IF ok THEN @ ELSE Append(@, port),
                        !.i = NextProbe(health.i, ok)]
    /\ UNCHANGED <<clientvars, collector, downloader>>

\* the report and sys.exit
HealthExit ==
    /\ health.pc = "loop"
    /\ health.i > Len(HealthPorts)
    /\ health' = [health EXCEPT
                     !.pc = "exited",
                     !.exit = IF health.failed_checks # <<>> THEN 1 ELSE 0,
                     !.printed = IF health.failed_checks # <<>> THEN "UNHEALTHY"
                                 ELSE "HEALTHY"]
    /\ UNCHANGED <<clientvars, collector, downloader>>

HealthNext == HealthCheckPort \/ HealthExit

HealthSpec == HealthInit /\ [][HealthNext]_vars

(***************************************************************************)
(* monitoring/prometheus_exporter.py: MT5MetricsCollector                   *)
(***************************************************************************)
\* the account gauges: mt5_account_balance, _equity, _margin, _margin_free
AccountGauges == {"balance", "equity", "margin", "margin_free"}

\* a result envelope with the account under "data", as the bridge shapes it
AccountEnvelope ==
    JsonDumps(PyDict(<<Item("error", PyBool(FALSE)),
                       Item("description", PyStr("Success")),
                       Item("data", PyDict(<<Item("balance", PyNum("10000")),
                                             Item("equity", PyNum("10000")),
                                             Item("margin", PyNum("500")),
                                             Item("margin_free", PyNum("9500"))>>))>>))

\* a result with the account's fields beside "error"
FlatAccountFrame ==
    JsonDumps(PyDict(<<Item("error", PyBool(FALSE)),
                       Item("balance", PyNum("10000")),
                       Item("equity", PyNum("10000")),
                       Item("margin", PyNum("500")),
                       Item("margin_free", PyNum("9500"))>>))

\* the latest call of connect() or collect_account_metrics() run() made;
\* none yet.  sent: its command frame was sent; acked: the acknowledgment came
\* in time; seq: the number of the command among those sent; asked:
\* receive_data was called; received, consumed, response: it returned a frame,
\* the command that frame answers, the value returned
NoIteration ==
    [kind |-> "none", ret |-> FALSE, sent |-> FALSE, acked |-> FALSE, seq |-> 0,
     asked |-> FALSE, received |-> FALSE, consumed |-> 0, response |-> PyNone,
     gauges_before |-> [g \in AccountGauges |-> PyNum("0")],
     errors_before |-> 0, status_before |-> 0, connect_before |-> "none"]

\* the iteration that begins now
Iteration(kind) ==
    [NoIteration EXCEPT !.kind = kind,
                        !.gauges_before = collector.gauges,
                        !.errors_before = collector.errors,
                        !.status_before = collector.status,
                        !.connect_before = collector.connect_ret]

\* MT5MetricsCollector(host): self.client = None; the gauges of the module
\* are 0 until set
CollectorInit ==
    /\ NoClient
    /\ health = NoHealth
    /\ downloader = NoDownload
    /\ \E h \in Hosts :
          collector = [NoCollector EXCEPT
                         !.pc = "loop", !.host = h,
                         !.gauges = [g \in AccountGauges |-> PyNum("0")],
                         !.it = NoIteration]

\* the result frames waiting after the bridge answered a command it
\* acknowledged, if it did
Answered(frames, reply, answer) == IF reply.some THEN Append(frames, answer) ELSE frames

\* connect(), called by run() when `not self.client`: self.client is None (an
\* instance of JsonAPIClient, which has no __bool__ and no __len__, is true)
CollectorConnect(reply, answer) ==
    LET h == collector.host
        \* JsonAPIClient(host=self.host, verbose=False)
        ports == [e \in EP |-> PortOf(e, NoPort)]
        refused == FirstRefused(h, ports) # 0
        made == InitSockets(h, ports)
        got == reply.some /\ Within(reply.delay, made["system"].rcvtimeo)
        ack == IF got THEN AckResult(reply.frame) ELSE AckTimeoutResult
        ok == ~refused /\ Truthy(ack.ret)
        it == Iteration("connect")
    IN  /\ collector.pc = "loop"
        /\ ~collector.client
        /\ collector.cycles < MaxCycles
        /\ refused => reply = NoArrival
        /\ IF refused
           THEN UNCHANGED <<life, attrs, verbose, context, sockets, inbox, unacked>>
           ELSE /\ life' = "ready"
                /\ attrs' = InitAttrs(h, ports)
                /\ verbose' = FALSE
                /\ context' = [made |-> TRUE, closed |-> FALSE, terms |-> 0]
                /\ sockets' = [made EXCEPT !["system"].awaiting = ~got]
                /\ unacked' = IF got THEN 0 ELSE 1
                /\ inbox' = [inbox EXCEPT !["data"] = Answered(@, reply, answer)]
        /\ collector' =
              [collector EXCEPT
                 !.cycles = @ + 1,
                 !.client = ~refused,
                 !.commands = IF refused THEN @ ELSE @ + 1,
                 !.tags = IF refused THEN @
                          ELSE Answered(@, reply, collector.commands + 1),
                 !.requests = IF ok THEN @ + 1 ELSE @,
                 !.errors = IF ok THEN @ ELSE @ + 1,
                 !.status = IF ok THEN 1 ELSE 0,
                 !.connect_ret = IF ok THEN "True" ELSE "False",
                 !.pc = IF ok THEN "collect" ELSE "loop",
                 !.it = [it EXCEPT !.ret = ok, !.sent = ~refused, !.acked = got,
                                   !.seq = IF refused THEN 0
                                           ELSE collector.commands + 1]]
        /\ UNCHANGED <<calls, last, scope, conc, stale, health, downloader>>

\* collect_account_metrics() after receive_data returned data: "set" when the
\* gauges are set from it, else the error_type counted
Collected(data) ==
    IF ~Truthy(data) THEN "api_error"
    ELSE IF ~IsDict(data) THEN "exception"
    ELSE IF Truthy(DictGetDefault(data, "error", PyBool(TRUE))) THEN "api_error"
    ELSE "set"

\* collect_account_metrics(), called by run() when self.client is set
CollectorCollect(reply, answer, when) ==
    LET s == sockets["system"]
        err == ReqSendError(s)
        got == err = "" /\ reply.some /\ Within(reply.delay, s.rcvtimeo)
        ack == IF got THEN AckResult(reply.frame) ELSE AckTimeoutResult
        receives == err = "" /\ Truthy(ack.ret)
        seq == collector.commands + 1
        timeout_ms == Override(5000)
        d == sockets["data"]
        eff == EffectiveTimeout(d, timeout_ms)
        \* the result frames waiting when recv_string ends, and their commands
        frames == IF when = "prompt" THEN Answered(inbox["data"], reply, answer)
                  ELSE inbox["data"]
        tags == IF when = "prompt" THEN Answered(collector.tags, reply, seq)
                ELSE collector.tags
        taken == receives /\ frames # <<>>
        res == IF taken THEN DataResult(Head(frames)) ELSE RecvTimeoutResult
        how == IF err # "" THEN "exception"
               ELSE IF ~receives THEN "return"
               ELSE Collected(res.ret)
        left == IF taken THEN Tail(frames) ELSE frames
        lefttags == IF taken THEN Tail(tags) ELSE tags
        it == Iteration("collect")
    IN  /\ collector.pc = "collect" \/ (collector.pc = "loop" /\ collector.client)
        /\ collector.cycles < MaxCycles
        /\ err # "" => reply = NoArrival
        /\ ~reply.some => when = "late"
        /\ sockets' =
              [sockets EXCEPT
                 !["system"].awaiting = IF err = "" THEN ~got ELSE @,
                 !["data"].rcvtimeo =
                     IF receives THEN RestoredTimeout(d.rcvtimeo, eff, timeout_ms)
                     ELSE @]
        /\ unacked' = IF err # "" THEN unacked ELSE IF got THEN 0 ELSE unacked + 1
        /\ inbox' = [inbox EXCEPT
                       !["data"] = IF when = "prompt" THEN left
                                   ELSE Answered(left, reply, answer)]
        /\ collector' =
              [collector EXCEPT
                 !.cycles = @ + 1,
                 !.pc = "loop",
                 !.commands = IF err = "" THEN seq ELSE @,
                 !.tags = IF when = "prompt" THEN lefttags
                          ELSE Answered(lefttags, reply, seq),
                 !.requests = IF receives THEN @ + 1 ELSE @,
                 !.errors = IF how \in {"set", "return"} THEN @ ELSE @ + 1,
                 \* gauge.set(data.get(name, 0))
                 !.gauges = IF how = "set"
                            THEN [g \in AccountGauges |->
                                     DictGetDefault(res.ret, g, PyNum("0"))]
                            ELSE @,
                 !.it = [it EXCEPT !.sent = err = "", !.acked = got,
                                   !.seq = IF err = "" THEN seq ELSE 0,
                                   !.asked = receives,
                                   !.received = taken,
                                   !.consumed = IF taken THEN Head(tags) ELSE 0,
                                   !.response = res.ret]]
        /\ UNCHANGED <<life, attrs, verbose, context, calls, last, scope, conc,
                       stale, health, downloader>>

\* KeyboardInterrupt in run(), and the cleanup after the loop
CollectorStop ==
    /\ collector.pc = "loop"
    /\ IF collector.client
       THEN /\ CloseDoes
            /\ collector' = [collector EXCEPT !.pc = "stopped", !.status = 0,
                                              !.tags = <<>>]
       ELSE /\ collector' = [collector EXCEPT !.pc = "stopped"]
            /\ UNCHANGED <<sockets, context, inbox, attrs, stale>>
    /\ UNCHANGED <<life, verbose, unacked, calls, last, scope, conc, health,
                   downloader>>

\* what the bridge may push in answer to BALANCE and to ACCOUNT, and when the
\* answer comes: before receive_data gives up, or after
CollectorNext ==
    \/ \E reply \in Arrivals("system"),
          answer \in {AccountEnvelope, FlatAccountFrame, ErrorFrame, NotJsonFrame} :
          CollectorConnect(reply, answer)
    \/ \E reply \in Arrivals("system"),
          answer \in {AccountEnvelope, FlatAccountFrame, ErrorFrame, NotJsonFrame},
          when \in {"prompt", "late"} : CollectorCollect(reply, answer, when)
    \/ CollectorStop

CollectorSpec == CollectorInit /\ [][CollectorNext]_vars

(***************************************************************************)
(* scripts/download_history.py: HistoryDownloader                           *)
(***************************************************************************)
\* what the bridge may push in answer to HISTORY: bars (each a time and a
\* price), bars with their symbol and timeframe named, no bars, `data` that
\* is no list, an error, no `data`, no JSON, null, a list
HistoryFrames ==
    LET bar == PyList(<<PyNum("12345"), PyNum("1")>>)
        frame(data) ==
            JsonDumps(PyDict(<<Item("error", PyBool(FALSE)), Item("data", data)>>))
    IN  { frame(PyList(<<bar>>)),
          JsonDumps(PyDict(<<Item("symbol", PyStr("EURUSD")),
                             Item("timeframe", PyStr("M1")),
                             Item("data", PyList(<<bar, bar>>))>>)),
          frame(PyList(<<>>)), frame(PyStr("no bars")), ErrorFrame,
          JsonDumps(PyDict(<<Item("error", PyBool(FALSE))>>)),
          NotJsonFrame, NullFrame, BigListFrame }

\* HistoryDownloader(host): the context and the two sockets are there
DownloadInit ==
    /\ NoClient
    /\ health = NoHealth
    /\ collector = NoCollector
    /\ \E sy \in {"EURUSD", "XAUUSD"}, tf \in {"M1", "H1"} :
          downloader = [NoDownload EXCEPT !.pc = "ready", !.symbol = sy,
                                          !.timeframe = tf, !.reply = NoArrival,
                                          !.arrival = NoArrival]

\* ack = self.system_socket.recv_string(), before the try: the exception that
\* leaves download_history when no acknowledgment comes in time
AckWaitRaises(got) == IF got THEN "" ELSE "zmq.Again"

\* download_history from the acknowledgment on
HistoryResult(symbol, timeframe, ack, arrival) ==
    LET data == JsonLoads(arrival.frame).v IN
    IF ack # <<B("OK")>> THEN PyNone
    ELSE IF ~(arrival.some /\ Within(arrival.delay, HISTORY_DATA_RCVTIMEO)) THEN PyNone
    ELSE IF ~JsonLoads(arrival.frame).ok THEN PyNone
    ELSE IF ~IsDict(data) THEN PyNone
    ELSE IF Truthy(DictGetDefault(data, "error", PyBool(FALSE))) THEN PyNone
    ELSE IF ~HasKey(data, "data") THEN PyNone
    ELSE IF ~IsList(DictGet(data, "data")) THEN PyNone
    ELSE IF Len(DictGet(data, "data").items) = 0 THEN PyNone
    ELSE PyDict(<<Item("symbol", DictGetDefault(data, "symbol", PyStr(symbol))),
                  Item("timeframe",
                       DictGetDefault(data, "timeframe", PyStr(timeframe))),
                  Item("bars", DictGet(data, "data"))>>)

\* downloader.download_history(symbol, timeframe, from, to), called by main()
DownloadHistory(reply, arrival) ==
    LET got == reply.some /\ Within(reply.delay, HISTORY_ACK_RCVTIMEO)
        raised == AckWaitRaises(got)
    IN  /\ downloader.pc = "ready"
        \* no result frame is waited for unless "OK" came
        /\ ~(got /\ reply.frame = <<B("OK")>>) => arrival = NoArrival
        /\ downloader' =
              [downloader EXCEPT
                 !.pc = "downloaded", !.reply = reply, !.arrival = arrival,
                 !.sent = TRUE, !.awaiting = ~got,
                 !.raised = raised,
                 !.ret = IF got
                         THEN HistoryResult(downloader.symbol, downloader.timeframe,
                                            reply.frame, arrival)
                         ELSE PyNone]
        /\ UNCHANGED <<clientvars, health, collector>>

\* main(): `if data: downloader.save_to_csv(data, output_file)`
DownloadSave ==
    /\ downloader.pc = "downloaded"
    /\ downloader.raised = ""
    /\ Truthy(downloader.ret)
    /\ downloader' = [downloader EXCEPT !.pc = "saved", !.csv = TRUE]
    /\ UNCHANGED <<clientvars, health, collector>>

\* main(): `finally: downloader.close()`
DownloadClose ==
    /\ \/ downloader.pc = "saved"
       \/ downloader.pc = "downloaded"
            /\ (downloader.raised # "" \/ ~Truthy(downloader.ret))
    /\ downloader' = [downloader EXCEPT !.pc = "closed", !.closed = TRUE,
                                        !.awaiting = FALSE]
    /\ UNCHANGED <<clientvars, health, collector>>

\* the bridge's acknowledgment and result frame, each with the time it takes
DownloadNext ==
    \/ \E reply \in {NoArrival}
                       \cup {Arrival(f, d) : f \in {<<B("OK")>>, <<B("ERROR")>>, <<>>},
                                             d \in {100, 20000}},
          arrival \in {NoArrival}
                         \cup {Arrival(f, d) : f \in HistoryFrames,
                                               d \in {100, 4000000}} :
          DownloadHistory(reply, arrival)
    \/ DownloadSave
    \/ DownloadClose

DownloadSpec == DownloadInit /\ [][DownloadNext]_vars

(***************************************************************************)
(* The claims.                                                             *)
(***************************************************************************)
SystemOpen == life = "ready" /\ ~sockets["system"].closed

\* frame is the JSON object {"action": action, **kwargs} and nothing else
IsCommandFrame(frame, action, kwargs) ==
    LET p == JsonLoads(frame) IN
    /\ p.ok
    /\ IsDict(p.v)
    /\ DictKeys(p.v) = {"action"} \cup {kwargs[i].key : i \in 1..Len(kwargs)}
    /\ Len(p.v.pairs) = 1 + Len(kwargs)
    /\ DictGet(p.v, "action") = PyStr(action)
    /\ \A i \in 1..Len(kwargs) : DictGet(p.v, kwargs[i].key) = kwargs[i].val

\* C1: every send_command call on an open client sends exactly one frame, on the
\* command endpoint, and the frame is the JSON object of the action and the
\* parameters given.
C1_OneCommandFramePerCall ==
    (last.op = "send_command" /\ SystemOpen) =>
        /\ Len(last.sent) = 1
        /\ last.sent[1].ep = "system"
        /\ IsCommandFrame(last.sent[1].frame, last.action, last.kwargs)

\* C2: a send_command call whose acknowledgment does not arrive within the
\* receive timeout returns None and raises nothing.
C2_AckTimeoutReturnsNone ==
    (last.op = "send_command" /\ last.timedout) =>
        (last.raised = "" /\ last.ret = PyNone)

C2_Witness ==
    /\ last.op = "send_command"
    /\ last.timedout
    /\ last.waited = <<[ep |-> "system", ms |-> SYSTEM_RCVTIMEO]>>
    /\ last.ret = PyNone

\* C3: a send_command call made after an earlier one timed out on its
\* acknowledgment sends its well-formed frame and ends without raising.
C3_UsableAfterAckTimeout ==
    (last.op = "send_command" /\ last.unanswered /\ SystemOpen) =>
        /\ last.raised = ""
        /\ Len(last.sent) = 1
        /\ IsCommandFrame(last.sent[1].frame, last.action, last.kwargs)

C7_OverrideAppliesToOneCall ==
    (last.op = "receive_data" /\ last.waited # <<>>) =>
        /\ sockets["data"].rcvtimeo = last.before["data"]
        /\ last.override.given => last.waited[1].ms = last.override.ms
        /\ ~last.override.given => last.waited[1].ms = DATA_RCVTIMEO

C7_Witness ==
    /\ last.op = "receive_data"
    /\ last.override.given
    /\ last.waited = <<[ep |-> "data", ms |-> last.override.ms]>>
    /\ last.override.ms # DATA_RCVTIMEO
    /\ sockets["data"].rcvtimeo = DATA_RCVTIMEO

\* C8: the first close() of a fully constructed client closes the command,
\* result, quote and event sockets, in that order and each once, and then
\* terminates the context, once.
C8_CloseClosesAllThenTerminates ==
    (last.op = "close" /\ life = "ready" /\ ~last.closed_before) =>
        /\ last.raised = ""
        /\ last.steps = <<"close system", "close data", "close live",
                          "close stream", "term">>
        /\ \A e \in EP : sockets[e].closed /\ sockets[e].closes = 1
        /\ context.closed /\ context.terms = 1

C8_Witness ==
    /\ last.op = "close"
    /\ life = "ready"
    /\ ~last.closed_before
    /\ context.terms = 1

\* C9: close() after a construction that failed part of the way raises
\* nothing, closes every socket that was created and terminates the context.
C9_CloseSafeAfterFailedInit ==
    (last.op = "close" /\ life = "failed") =>
        /\ last.raised = ""
        /\ \A e \in EP : sockets[e].made => sockets[e].closed
        /\ context.closed

\* C10: a close() of a client that is closed already raises nothing and
\* changes nothing: the sockets, the context and the attributes stay as the
\* first close() left them, the context terminated once.
C10_CloseIsIdempotent ==
    [][(Idle /\ life = "ready" /\ context.closed /\ last'.op = "close") =>
          /\ last'.raised = ""
          /\ sockets' = sockets
          /\ context' = context
          /\ attrs' = attrs
          /\ context'.terms = 1]_vars

C10_Witness ==
    /\ last.op = "close"
    /\ last.closed_before
    /\ last.raised = ""
    /\ context.terms = 1
    /\ \A e \in EP : sockets[e].closes = 1

\* C11: when the body of `with JsonAPIClient(...) as client:` ends, normally or
\* by raising, __exit__ has called close(): the four sockets are closed and the
\* context is terminated, each once whatever the body did; __exit__ raises
\* nothing and the body's exception, if any, leaves the statement.
C11_ScopeExitReleasesAndPropagates ==
    (last.op = "__exit__") =>
        /\ last.raised = ""
        /\ \A e \in EP : sockets[e].closed /\ sockets[e].closes = 1
        /\ context.closed /\ context.terms = 1
        /\ last.closed_before \/
              last.steps = <<"close system", "close data", "close live",
                             "close stream", "term">>
        /\ last.propagated = last.body

C11_Witness ==
    /\ last.op = "__exit__"
    /\ last.body = "ValueError"
    /\ last.propagated = "ValueError"
    /\ ~last.closed_before
    /\ context.terms = 1

\* C12: a send_command call whose acknowledgment arrived within the receive
\* timeout returns the text of that frame as it is, and has consumed that one
\* frame, from the command endpoint, and none from the other endpoints.
C12_AckReturnedRaw ==
    (last.op = "send_command" /\ last.sent # <<>> /\ ~last.timedout) =>
        /\ last.raised = ""
        /\ Len(last.took) = 1
        /\ last.took[1].ep = "system"
        /\ last.ret = PyText(last.took[1].frame)
        /\ inbox = last.inbox_before
        /\ ~sockets["system"].awaiting

C12_Witness ==
    /\ last.op = "send_command"
    /\ last.took = <<OnWire("system", <<B("OK")>>)>>
    /\ last.ret = PyText(<<B("OK")>>)
    /\ last.waited = <<[ep |-> "system", ms |-> SYSTEM_RCVTIMEO]>>

\* C13: receive_data, given a frame that is well-formed JSON, raises nothing,
\* returns the value json.loads gives for the frame, whatever its fields, and
\* has consumed that one frame, the oldest of the result endpoint.
C13_WellFormedFrameReturnedUnchanged ==
    (last.op = "receive_data" /\ last.took # <<>>
       /\ JsonLoads(last.took[1].frame).ok) =>
        /\ last.raised = ""
        /\ last.ret = JsonLoads(last.took[1].frame).v
        /\ Len(last.took) = 1 /\ last.took[1].ep = "data"
        /\ last.inbox_before["data"] # <<>> =>
              /\ last.took[1].frame = Head(last.inbox_before["data"])
              /\ inbox["data"] = Tail(last.inbox_before["data"])
        /\ last.inbox_before["data"] = <<>> => inbox["data"] = <<>>

\* the steps of the call that are `call`s, in order
StepsOf(call) == SelectSeq(last.steps, LAMBDA st : st.call = call)

\* C14: an __init__ that returns has created one context and four sockets on
\* it, and has connected them, in the order command, result, quote, event,
\* each to tcp://<host>:<port> with the host given and the port given for
\* that endpoint, 2201, 2202, 2203, 2204 where none was given.
C14_ConstructionOpensFourInOrder ==
    (last.op = "__init__" /\ last.raised = "") =>
        /\ Len(StepsOf("Context")) = 1 /\ last.steps[1].call = "Context"
        /\ context.made /\ ~context.closed
        /\ [i \in 1..Len(StepsOf("socket")) |-> StepsOf("socket")[i].ep] = Endpoints
        /\ [i \in 1..Len(StepsOf("connect")) |-> StepsOf("connect")[i].ep] = Endpoints
        /\ \A i \in 1..Len(Endpoints) :
              LET e == Endpoints[i]
                  port == IF last.ports[e].given THEN last.ports[e].port
                          ELSE <<SYSTEM_PORT, DATA_PORT, LIVE_PORT, STREAM_PORT>>[i]
              IN  /\ StepsOf("connect")[i].arg =
                        "tcp://" \o last.host \o ":" \o ToString(port)
                  /\ sockets[e].made /\ sockets[e].connected /\ ~sockets[e].closed
                  /\ sockets[e].host = last.host
        \* each socket is created before it is connected, and after the one before
        /\ \A i \in 1..Len(Endpoints) :
              /\ last.steps[2 * i] = Step("socket", Endpoints[i], SocketKind(Endpoints[i]))
              /\ last.steps[2 * i + 1].call = "connect"

C14_Witness ==
    /\ last.op = "__init__"
    /\ last.raised = ""
    /\ last.ports = CustomPorts
    /\ StepsOf("connect")[2].arg = "tcp://localhost:3002"
    /\ sockets["data"].connected

\* C15: when __init__ has returned, the receive timeouts of the command,
\* result, quote and event sockets are 5000, 5000, 1000 and 1000 ms; and a
\* send_command, receive_data, receive_live or receive_stream call given no
\* timeout override leaves every socket's receive timeout as it found it.
C15_DefaultTimeoutsKept ==
    /\ (last.op = "__init__" /\ last.raised = "") =>
          /\ sockets["system"].rcvtimeo = 5000
          /\ sockets["data"].rcvtimeo = 5000
          /\ sockets["live"].rcvtimeo = 1000
          /\ sockets["stream"].rcvtimeo = 1000
    /\ (last.op \in {"send_command", "receive_data", "receive_live", "receive_stream"}
         /\ ~last.override.given) =>
          \A e \in EP : sockets[e].rcvtimeo = last.before[e]
    /\ (last.op \in {"receive_data", "receive_live", "receive_stream"}
         /\ ~last.override.given /\ last.waited # <<>>) =>
          last.waited[1].ms = last.before[last.waited[1].ep]

C15_Witness ==
    /\ last.op = "receive_live"
    /\ ~last.override.given
    /\ last.waited = <<[ep |-> "live", ms |-> 1000]>>
    /\ last.timedout
    /\ sockets["live"].rcvtimeo = 1000
    /\ calls = 3

\* C16: after every step that leaves a constructed client, its command,
\* result, quote and event sockets are all open or all closed; and no step
\* opens a closed socket again or puts another socket in its place.
C16_EndpointsShareOneLifecycle ==
    [][life' = "ready" =>
          /\ \/ \A e \in EP : sockets'[e].made /\ ~sockets'[e].closed
             \/ \A e \in EP : sockets'[e].made /\ sockets'[e].closed
          /\ \A e \in EP : sockets[e].closed =>
                /\ sockets'[e].closed
                /\ sockets'[e].closes = sockets[e].closes]_vars

C16_Witness ==
    /\ life = "ready"
    /\ last.op = "receive_stream"
    /\ last.raised = "ZMQError(ENOTSOCK)"
    /\ \A e \in EP : sockets[e].closed /\ sockets[e].closes = 1

\* C17: a send_command call calls send_string once and recv_string at most
\* once, once when the send went out; a receive_data, receive_live or
\* receive_stream call calls recv_string at most once, once on an open socket;
\* no call sends more than one frame or takes more than one, and no call
\* after __init__ creates a context or a socket or connects one.
C17_NoRetryNoReconnect ==
    /\ last.op = "send_command" =>
          /\ Len(StepsOf("send_string")) = 1
          /\ Len(StepsOf("recv_string")) = (IF last.sent # <<>> THEN 1 ELSE 0)
          /\ Len(last.sent) <= 1 /\ Len(last.took) <= 1
          /\ Len(last.waited) <= 1
    /\ last.op \in {"receive_data", "receive_live", "receive_stream"} =>
          /\ Len(StepsOf("recv_string")) <= 1
          /\ Len(StepsOf("send_string")) = 0
          /\ last.waited # <<>> => Len(StepsOf("recv_string")) = 1
          /\ last.sent = <<>> /\ Len(last.took) <= 1
          /\ Len(last.waited) <= 1
    /\ last.op \in {"send_command", "receive_data", "receive_live", "receive_stream"} =>
          /\ StepsOf("Context") = <<>>
          /\ StepsOf("socket") = <<>>
          /\ StepsOf("connect") = <<>>
    /\ last.op \in {"close", "__exit__"} =>
          \A i \in 1..Len(last.steps) :
              last.steps[i] \in {"close " \o e : e \in EP} \cup {"term"}
    /\ \A e \in EP : sockets[e].closes <= 1
    /\ context.terms <= 1

C17_Witness ==
    /\ last.op = "receive_data"
    /\ last.timedout
    /\ last.unanswered
    /\ StepsOf("recv_string") = <<Step("recv_string", "data", "")>>
    /\ unacked = 1

\* the threads' calls are on four different endpoints
OnDistinctEndpoints ==
    /\ \A t \in Threads : threads[t].op # "none"
    /\ \A t, u \in Threads : t # u => threads[t].op # threads[u].op

\* C18: when send_command, receive_data, receive_live and receive_stream run
\* in four threads at once, in every interleaving each call that has ended
\* ended as it would have alone, took frames from its own endpoint only, and
\* left its endpoint's receive timeout as it was; no thread is aborted.
C18_DistinctEndpointsIndependent ==
    OnDistinctEndpoints =>
        \A t \in Threads :
            /\ threads[t].pc # "aborted"
            /\ threads[t].pc = "done" =>
                  /\ threads[t].raised = threads[t].solo.raised
                  /\ threads[t].ret = threads[t].solo.ret
                  /\ \A i \in 1..Len(threads[t].took) :
                        threads[t].took[i].ep =
                            (CASE threads[t].op = "send_command" -> "system"
                               [] threads[t].op = "receive_data" -> "data"
                               [] threads[t].op = "receive_live" -> "live"
                               [] threads[t].op = "receive_stream" -> "stream")
            /\ (\A u \in Threads : threads[u].pc = "done") =>
                  /\ sockets["system"].rcvtimeo = SYSTEM_RCVTIMEO
                  /\ sockets["data"].rcvtimeo = DATA_RCVTIMEO
                  /\ sockets["live"].rcvtimeo = LIVE_RCVTIMEO
                  /\ sockets["stream"].rcvtimeo = STREAM_RCVTIMEO

C18_Witness ==
    /\ OnDistinctEndpoints
    /\ \A t \in Threads : threads[t].pc = "done"
    /\ threads["t1"].ret = PyText(<<B("OK")>>)
    /\ threads["t2"].override.given /\ threads["t2"].took = <<OnWire("data", AccountFrame)>>
    /\ threads["t3"].override.given /\ threads["t3"].took = <<OnWire("live", TickFrame)>>
    /\ threads["t4"].raised = "JSONDecodeError"

C20_OldestFrameWhateverTheCommand ==
    /\ last.op = "send_command" => inbox = last.inbox_before
    /\ (last.op = "receive_data" /\ last.inbox_before["data"] # <<>>
         /\ last.waited # <<>>) =>
          /\ last.took = <<OnWire("data", Head(last.inbox_before["data"]))>>
          /\ inbox["data"] = Tail(last.inbox_before["data"])
          /\ ~last.timedout
    /\ (last.op = "receive_data" /\ last.stale_before /\ last.waited # <<>>) =>
          /\ last.inbox_before["data"] # <<>>
          /\ last.took = <<OnWire("data", Head(last.inbox_before["data"]))>>

C20_Witness ==
    /\ last.op = "receive_data"
    /\ last.stale_before
    /\ last.inbox_before["data"] = <<ErrorFrame, AccountFrame>>
    /\ last.took = <<OnWire("data", ErrorFrame)>>
    /\ last.raised = ""
    /\ DictGet(last.ret, "error") = PyBool(TRUE)
    /\ stale = 1

\* C21: receive_live and receive_stream, given a frame that json.loads
\* rejects, raise the decoder's error and return nothing: no None, no error
\* dict; the frame is consumed.  receive_data given such a frame raises
\* nothing.
C21_LiveStreamParseErrorPropagates ==
    /\ (last.op \in {"receive_live", "receive_stream"} /\ last.took # <<>>
         /\ ~JsonLoads(last.took[1].frame).ok) =>
          /\ last.raised = "JSONDecodeError"
          /\ last.ret = PyNone
          /\ ~last.timedout
          /\ last.inbox_before[last.took[1].ep] # <<>> =>
                inbox[last.took[1].ep] = Tail(last.inbox_before[last.took[1].ep])
    /\ (last.op = "receive_data" /\ last.took # <<>>
         /\ ~JsonLoads(last.took[1].frame).ok) =>
          last.raised = ""

C21_Witness ==
    /\ last.op = "receive_stream"
    /\ last.took = <<OnWire("stream", NotJsonFrame)>>
    /\ last.raised = "JSONDecodeError"
    /\ inbox["stream"] = <<>>

\* C22: a receive_live or receive_stream call takes at most one frame, from
\* its own endpoint, and leaves the frames of the other endpoints; given a
\* well-formed JSON frame it returns the value json.loads gives for it; when
\* no frame arrives within the timeout it returns None and raises nothing.
C22_LiveStreamOneFrameParsedOrNone ==
    (last.op \in {"receive_live", "receive_stream"} /\ last.waited # <<>>) =>
        /\ Len(last.took) <= 1
        /\ \A i \in 1..Len(last.took) : last.took[i].ep = EndpointOf(last.op)
        /\ \A e \in PullEP \ {EndpointOf(last.op)} : inbox[e] = last.inbox_before[e]
        /\ Len(inbox[EndpointOf(last.op)]) >= Len(last.inbox_before[EndpointOf(last.op)]) - 1
        /\ (last.took # <<>> /\ JsonLoads(last.took[1].frame).ok) =>
              /\ last.raised = ""
              /\ last.ret = JsonLoads(last.took[1].frame).v
        /\ last.timedout =>
              /\ last.took = <<>>
              /\ last.raised = ""
              /\ last.ret = PyNone
              /\ inbox = last.inbox_before

C22_Witness ==
    /\ last.op = "receive_live"
    /\ last.took = <<OnWire("live", TickFrame)>>
    /\ last.ret = PyDict(<<Item("symbol", PyStr("EURUSD"))>>)
    /\ last.inbox_before["live"] = <<TickFrame>>
    /\ last.inbox_before["data"] # <<>>

\* C29: when a receive_live or receive_stream call given a timeout override
\* ends, by returning or by raising on a frame that is not JSON, its
\* endpoint's receive timeout is what it was when the call began, and so are
\* the other endpoints'; the call waited under the override.
C29_LiveStreamOverrideRestored ==
    (last.op \in {"receive_live", "receive_stream"} /\ last.override.given
       /\ last.waited # <<>>) =>
        /\ \A e \in EP : sockets[e].rcvtimeo = last.before[e]
        /\ last.waited = <<[ep |-> EndpointOf(last.op), ms |-> last.override.ms]>>

C29_Witness ==
    /\ last.op = "receive_live"
    /\ last.override = Override(50)
    /\ last.raised = "JSONDecodeError"
    /\ last.waited = <<[ep |-> "live", ms |-> 50]>>
    /\ sockets["live"].rcvtimeo = LIVE_RCVTIMEO

\* C23: the health check exits with 0 exactly when the four ports 2201, 2202,
\* 2203, 2204 all accepted a connection, and with 1 otherwise; it has probed
\* all four, in order, and its report names every port that did not accept.
C23_HealthyIffAllPortsAccept ==
    health.pc = "exited" =>
        /\ health.exit \in {0, 1}
        /\ health.exit = 0 <=> \A i \in 1..4 : health.net[i] = "accepted"
        /\ health.printed = (IF health.exit = 0 THEN "HEALTHY" ELSE "UNHEALTHY")
        /\ health.probed = <<2201, 2202, 2203, 2204>>
        /\ health.failed_checks =
              SelectSeq(<<2201, 2202, 2203, 2204>>,
                        LAMBDA port : health.net[port - 2200] # "accepted")

C23_Witness ==
    /\ health.pc = "exited"
    /\ health.exit = 1
    /\ health.net = <<"refused", "accepted", "accepted", "raised">>
    /\ health.failed_checks = <<2201, 2204>>


\* C30: the verbosity flag affects printing only: a receive_data of a client
\* constructed with verbose=True consumes the frame, returns the value and
\* raises the error that the same call of a client with verbose=False does,
\* whatever the size and the JSON shape of the frame (with verbose=False the
\* call raises nothing, and returns the parsed frame, or the error envelope
\* for a malformed one, or None when no frame came).
C30_VerboseOnlyPrints ==
    (verbose /\ last.op = "receive_data" /\ ~sockets["data"].closed) =>
        /\ last.raised = ""
        /\ last.took = <<>> => last.ret = PyNone /\ last.timedout
        /\ last.took # <<>> =>
              LET p == JsonLoads(last.took[1].frame) IN
              last.ret = IF p.ok THEN p.v ELSE DecodeErrorResult.ret


\* C24: in the loop of run(), a connect() that returned False is retried: no
\* collect_account_metrics() runs while the latest connect() returned False
\* (the iteration it failed in collects nothing, and the iterations after it
\* call connect() again until one returns True).
C24_FailedConnectIsRetried ==
    collector.it.kind = "collect" => collector.it.connect_before = "True"

\* C25: mt5_connection_status is 1 only after a connect() whose BALANCE probe
\* was acknowledged, and it is 0 at the end of every collection cycle whose
\* ACCOUNT command was sent and got no acknowledgment.
C25_StatusGaugeTracksConnectivity ==
    /\ collector.status = 1 => collector.connect_ret = "True"
    /\ (collector.it.kind = "collect" /\ collector.it.sent /\ ~collector.it.acked)
          => collector.status = 0

\* C26: the result frame a collection cycle consumes answers the ACCOUNT
\* command that cycle sent, the bridge answering every command it
\* acknowledged with one result frame, in order.
C26_CycleConsumesItsOwnAnswer ==
    (collector.it.kind = "collect" /\ collector.it.received)
        => collector.it.consumed = collector.it.seq

\* C27: after a collection cycle whose response is a non-error envelope with
\* the account under "data", the four account gauges have the balance,
\* equity, margin and margin_free of that "data"; after a cycle that asked for
\* a response and got none, or got an error envelope, the gauges are as they
\* were and zmq_errors_total has grown by one.
C27_GaugesFromEnvelopeData ==
    LET it == collector.it
        r == it.response
        envelope == IsDict(r) /\ HasKey(r, "error") /\ HasKey(r, "data")
                      /\ DictGet(r, "error") = PyBool(FALSE)
                      /\ IsDict(DictGet(r, "data"))
        failed == IsDict(r) /\ HasKey(r, "error") /\ DictGet(r, "error") = PyBool(TRUE)
    IN  (it.kind = "collect" /\ it.asked /\ collector.pc = "loop") =>
          /\ (it.received /\ envelope) =>
                \A g \in AccountGauges :
                    collector.gauges[g] = DictGet(DictGet(r, "data"), g)
          /\ (~it.received \/ failed) =>
                /\ collector.gauges = it.gauges_before
                /\ collector.errors = it.errors_before + 1


\* C28: download_history never raises; it returns None when no acknowledgment
\* came within the command timeout, when the acknowledgment is not "OK", when
\* no data frame came within the data timeout, when the frame is malformed,
\* is an error envelope, or has a missing, non-list or empty `data`; it returns
\* a bars result only when the acknowledgment is "OK" and the response has a
\* non-empty `data` list; and a CSV file is written only in that last case.
C28_DownloadReturnsNoneOnEveryFailure ==
    LET dl == downloader
        acked == dl.reply.some /\ Within(dl.reply.delay, HISTORY_ACK_RCVTIMEO)
        came == dl.arrival.some /\ Within(dl.arrival.delay, HISTORY_DATA_RCVTIMEO)
        p == JsonLoads(dl.arrival.frame)
        bars == /\ acked /\ dl.reply.frame = <<B("OK")>>
                /\ came /\ p.ok /\ IsDict(p.v)
                /\ ~Truthy(DictGetDefault(p.v, "error", PyBool(FALSE)))
                /\ HasKey(p.v, "data") /\ IsList(DictGet(p.v, "data"))
                /\ Len(DictGet(p.v, "data").items) > 0
    IN  dl.pc \in {"downloaded", "saved", "closed"} =>
          /\ dl.raised = ""
          /\ ~bars => dl.ret = PyNone
          /\ bars => /\ IsDict(dl.ret)
                      /\ DictGet(dl.ret, "bars") = DictGet(p.v, "data")
          /\ dl.csv => bars

====
